---- MODULE Spec2Model ----
(***************************************************************************)
(* Model of termika.py: the batch driver (section 4 of the script), the    *)
(* per-file pipeline process_image, the radiometric exporter               *)
(* save_radiometric_tiff and the helper parse_dji_datetime.                *)
(*                                                                         *)
(* Text is modelled as sequences of one-character strings, so that         *)
(* str.replace, re.search, sorted() and the path helpers are computed      *)
(* character by character.  Temperatures are integers; the median is kept  *)
(* doubled and the zone margins as whole percents, so that the comparisons *)
(* of lines 109-110 are exact rational comparisons.                        *)
(***************************************************************************)
EXTENDS Integers, Sequences, FiniteSets, TLC

VARIABLES
    argv,                \* sys.argv[1:], as a set of flags
    listing,             \* names present in INPUT_DIR
    content,             \* what the decoder yields for each matched file
    logo_exists,         \* os.path.exists(LOGO_FULL_PATH)
    strefa_dol_procent,  \* termika.conf: strefa_dol_procent
    strefa_gora_procent, \* termika.conf: strefa_gora_procent
    current_mode,        \* __main__: current_mode
    files,               \* __main__: files
    logo_data,           \* __main__: logo_data
    pc,                  \* position of __main__
    idx,                 \* number of files the for loop has consumed
    figs,                \* figures open in pyplot's registry
    outdir,              \* files present in OUTPUT_DIR: path -> content
    log,                 \* lines written to stdout by the handlers
    trace,               \* one record per process_image invocation
    fn_arg,              \* argument of a direct parse_dji_datetime call
    fn_ret               \* its return value

vars == <<argv, listing, content, logo_exists, strefa_dol_procent,
          strefa_gora_procent, current_mode, files, logo_data, pc, idx,
          figs, outdir, log, trace, fn_arg, fn_ret>>

batchVars == <<argv, listing, content, logo_exists, strefa_dol_procent,
               strefa_gora_procent, current_mode, files, logo_data, pc, idx,
               figs, outdir, log, trace>>

None == "None"

(***************************************************************************)
(* Bounds of the model.                                                    *)
(***************************************************************************)
MaxFiles == 2      \* largest number of names in INPUT_DIR
MaxRun == 16       \* longest generated run of digits in a file name
MaxTemp == 1       \* temperatures of the generated matrices: -MaxTemp..MaxTemp

(***************************************************************************)
(* Text.                                                                   *)
(***************************************************************************)
Digits == {"0", "1", "2", "3", "4", "5", "6", "7", "8", "9"}

\* The characters the model uses, in code-point order.
Ascii == <<" ", ".", "/", "0", "1", "2", "3", "4", "5", "6", "7", "8", "9",
           ":", "A", "B", "D", "G", "I", "J", "P", "T", "X", "Y", "_",
           "a", "d", "e", "f", "g", "h", "i", "j", "n", "o", "p", "r", "s",
           "t", "u", "w", "x", "z">>

Ord(c) == CHOOSE k \in 1..Len(Ascii) : Ascii[k] = c

\* s < t for Python str: first differing character decides, a proper prefix
\* is smaller.
RECURSIVE StrLess(_, _)
StrLess(s, t) ==
    IF t = <<>> THEN FALSE
    ELSE IF s = <<>> THEN TRUE
    ELSE IF Head(s) = Head(t) THEN StrLess(Tail(s), Tail(t))
    ELSE Ord(Head(s)) < Ord(Head(t))

StartsWith(s, p) == Len(s) >= Len(p) /\ SubSeq(s, 1, Len(p)) = p
EndsWith(s, p) ==
    Len(s) >= Len(p) /\ SubSeq(s, Len(s) - Len(p) + 1, Len(s)) = p

\* str.replace(old, new): non-overlapping occurrences, left to right.
RECURSIVE Replace(_, _, _)
Replace(s, old, new) ==
    IF s = <<>> THEN <<>>
    ELSE IF StartsWith(s, old) THEN
        new \o Replace(SubSeq(s, Len(old) + 1, Len(s)), old, new)
    ELSE <<Head(s)>> \o Replace(Tail(s), old, new)

\* os.path.join(a, b) for a relative b.
Join(a, b) ==
    IF a = <<>> \/ a[Len(a)] = "/" THEN a \o b ELSE a \o <<"/">> \o b

\* os.path.basename(p): what follows the last "/".
RECURSIVE Basename(_)
Basename(p) ==
    IF \E k \in 1..Len(p) : p[k] = "/"
    THEN Basename(Tail(p))
    ELSE p

\* str.upper() is not modelled: the banner of line 170 is not part of any
\* modelled state.

(***************************************************************************)
(* parse_dji_datetime (lines 150-155).                                     *)
(***************************************************************************)
DateLen == 8
TimeLen == 6

Placeholder == <<"D", "a", "t", "a", " ", "n", "i", "e", "z", "n", "a", "n", "a">>

AllDigits(s, from, n) == \A k \in from..(from + n - 1) : s[k] \in Digits

\* A search that keeps the last match instead of the first.
RECURSIVE SearchLast(_, _)
SearchLast(s, i) ==
    IF i < 1 THEN 0
    ELSE IF i + DateLen + TimeLen - 1 <= Len(s)
            /\ AllDigits(s, i, DateLen + TimeLen) THEN i
    ELSE SearchLast(s, i - 1)

\* re.search(r'(\d{8})(\d{6})', s) from position i: the start of the
\* leftmost match, 0 for no match.
RECURSIVE ReSearchFrom(_, _)
ReSearchFrom(s, i) ==
    IF i + DateLen + TimeLen - 1 > Len(s) THEN 0
    ELSE IF AllDigits(s, i, DateLen) /\ AllDigits(s, i + DateLen, TimeLen)
         THEN i
    ELSE ReSearchFrom(s, i + 1)

ReSearchLastMutant(s) == SearchLast(s, Len(s))

ReSearch(s) == ReSearchFrom(s, 1)

\* The f-string of line 154; d[a:b] of Python is SubSeq(d, a + 1, b).
FormatDate(d, t) ==
    SubSeq(d, 7, 8) \o <<".">> \o SubSeq(d, 5, 6) \o <<".">> \o SubSeq(d, 1, 4)
    \o <<" ">> \o SubSeq(t, 1, 2) \o <<":">> \o SubSeq(t, 3, 4)
    \o <<":">> \o SubSeq(t, 5, 6)

parse_dji_datetime(filename) ==
    LET m == ReSearch(filename) IN
    IF m # 0 THEN
        LET d == SubSeq(filename, m, m + DateLen - 1)
            t == SubSeq(filename, m + DateLen, m + DateLen + TimeLen - 1)
        IN FormatDate(d, t)
    ELSE Placeholder

(***************************************************************************)
(* Temperature matrices: a sequence of rows of equal length.               *)
(***************************************************************************)
Height(m) == Len(m)
Width(m) == Len(m[1])

\* The matrix in row-major (C) order, as numpy flattens it.
RECURSIVE Flatten(_)
Flatten(m) == IF m = <<>> THEN <<>> ELSE Head(m) \o Flatten(Tail(m))

RECURSIVE SeqMin(_)
SeqMin(a) ==
    IF Len(a) = 1 THEN a[1]
    ELSE LET r == SeqMin(Tail(a)) IN IF a[1] <= r THEN a[1] ELSE r

RECURSIVE SeqMax(_)
SeqMax(a) ==
    IF Len(a) = 1 THEN a[1]
    ELSE LET r == SeqMax(Tail(a)) IN IF a[1] >= r THEN a[1] ELSE r

RECURSIVE SeqSum(_)
SeqSum(a) == IF a = <<>> THEN 0 ELSE Head(a) + SeqSum(Tail(a))

RECURSIVE Insert(_, _)
Insert(x, a) ==
    IF a = <<>> THEN <<x>>
    ELSE IF x <= Head(a) THEN <<x>> \o a
    ELSE <<Head(a)>> \o Insert(x, Tail(a))

RECURSIVE SortInts(_)
SortInts(a) == IF a = <<>> THEN <<>> ELSE Insert(Head(a), SortInts(Tail(a)))

np_min(m) == SeqMin(Flatten(m))
np_max(m) == SeqMax(Flatten(m))

\* np.mean, kept as the pair <<sum, count>>.
np_mean(m) == <<SeqSum(Flatten(m)), Len(Flatten(m))>>

\* np.median, doubled: the middle element, or the mean of the two middle
\* elements when the count is even.
np_median2(m) ==
    LET a == SortInts(Flatten(m))
        n == Len(a)
    IN IF n % 2 = 1 THEN 2 * a[(n + 1) \div 2]
       ELSE a[n \div 2] + a[n \div 2 + 1]

\* Scan of np.argmax that keeps the last index holding the maximum.
RECURSIVE ArgmaxLastFrom(_, _, _)
ArgmaxLastFrom(a, i, best) ==
    IF i > Len(a) THEN best
    ELSE ArgmaxLastFrom(a, i + 1, IF a[i] >= a[best] THEN i ELSE best)

\* np.argmax / np.argmin over the flattened matrix: the scan keeps the
\* first index holding the extremum.  Indices are 0-based as in numpy.
RECURSIVE ArgmaxFrom(_, _, _)
ArgmaxFrom(a, i, best) ==
    IF i > Len(a) THEN best
    ELSE ArgmaxFrom(a, i + 1, IF a[i] > a[best] THEN i ELSE best)

RECURSIVE ArgminFrom(_, _, _)
ArgminFrom(a, i, best) ==
    IF i > Len(a) THEN best
    ELSE ArgminFrom(a, i + 1, IF a[i] < a[best] THEN i ELSE best)

np_argmax_last(m) == ArgmaxLastFrom(Flatten(m), 2, 1) - 1

np_argmax(m) == ArgmaxFrom(Flatten(m), 2, 1) - 1

np_argmin(m) == ArgminFrom(Flatten(m), 2, 1) - 1

\* np.unravel_index(k, (h, w)) for a C-ordered shape: <<row, column>>.
np_unravel_index(k, h, w) == <<k \div w, k % w>>

(***************************************************************************)
(* Zone mask and its smoothing (lines 109-113).                            *)
(***************************************************************************)
\* t_low and t_high of line 109, times 200: t_med is med2 / 2 and the
\* margins are percent / 100.
ZoneLow200(med2, dol) == med2 * (100 - dol)
ZoneHigh200(med2, gora) == med2 * (100 + gora)

\* Line 110: 1 where t_low <= value <= t_high, else 0.
ZoneMask(m, low200, high200) ==
    [r \in 1..Height(m) |->
        [c \in 1..Width(m) |->
            IF 200 * m[r][c] >= low200 /\ 200 * m[r][c] <= high200
            THEN 1 ELSE 0]]

\* scipy.ndimage.gaussian_filter(mask, sigma=1.5): a separable correlation
\* with the kernel exp(-x^2 / (2 * 1.5^2)), x in -Radius..Radius,
\* Radius = int(4.0 * 1.5 + 0.5), borders extended by mode 'reflect'.  The
\* kernel is held as integer weights (4000 * exp(...), rounded); a smoothed
\* value is its integer sum over KernelSum per pass.
Radius == 6
Kernel == <<4000, 3203, 1644, 541, 114, 15, 1>>
KernelSum == Kernel[1] + 2 * SeqSum(Tail(Kernel))

\* Index into a line of length n extended by reflection (d c b a | a b c d
\* | d c b a), 0-based.
Reflect(j, n) ==
    LET p == j % (2 * n) IN IF p < n THEN p ELSE 2 * n - 1 - p

Abs(x) == IF x < 0 THEN -x ELSE x

Correlate1d(v) ==
    LET n == Len(v) IN
    [i \in 1..n |->
        SeqSum([k \in 1..(2 * Radius + 1) |->
            Kernel[Abs(k - Radius - 1) + 1]
                * v[Reflect(i - 1 + k - Radius - 1, n) + 1]])]

Transpose(m) ==
    [c \in 1..Width(m) |-> [r \in 1..Height(m) |-> m[r][c]]]

\* Axis 0 first, then axis 1; the result is scaled by KernelSum^2.
gaussian_filter(mask) ==
    LET pass0 == Transpose([c \in 1..Width(mask) |->
                               Correlate1d(Transpose(mask)[c])])
    IN [r \in 1..Height(mask) |-> Correlate1d(pass0[r])]

\* min(s) < 0.5 < max(s) for a field scaled by KernelSum^2 (line 113).
Straddles(smoothed) ==
    /\ 2 * np_min(smoothed) < KernelSum * KernelSum
    /\ KernelSum * KernelSum < 2 * np_max(smoothed)

(***************************************************************************)
(* Configuration and environment (lines 20-34).                            *)
(***************************************************************************)
INPUT_DIR == <<"i", "n">>
OUTPUT_DIR == <<"o", "u", "t">>

ExtJPG == <<".", "J", "P", "G">>
ExtTif == <<".", "t", "i", "f">>
ExtJpg == <<".", "j", "p", "g">>
PatternTail == <<"_", "T", ".", "J", "P", "G">>

Modes == {"podstawa", "strefa", "orto"}

\* The characters of a mode name, as the f-string of line 137 inserts them.
ModeChars(mode) ==
    CASE mode = "podstawa" -> <<"p", "o", "d", "s", "t", "a", "w", "a">>
      [] mode = "strefa" -> <<"s", "t", "r", "e", "f", "a">>
      [] mode = "orto" -> <<"o", "r", "t", "o">>

UnknownSensor == "Nieznany Sensor"

\* get_sensor_info (lines 142-148): EXIF tag 272, or the placeholder when
\* the tag is absent or the file cannot be read.
get_sensor_info(file) ==
    IF file.model # None THEN file.model ELSE UnknownSensor

\* glob.glob(os.path.join(INPUT_DIR, '*_T.JPG')) (line 165): the names that
\* end in _T.JPG and are not hidden, as paths.
FnMatch(name) == EndsWith(name, PatternTail) /\ name[1] # "."

Glob(names) == {Join(INPUT_DIR, n) : n \in {x \in names : FnMatch(x)}}

\* sorted() over a set of distinct strings.
RECURSIVE Sorted(_)
Sorted(S) ==
    IF S = {} THEN <<>>
    ELSE LET mn == CHOOSE x \in S : \A y \in S \ {x} : StrLess(x, y)
         IN <<mn>> \o Sorted(S \ {mn})

\* Lines 161-163.
SelectMode(args) ==
    LET m0 == "podstawa"
        m1 == IF "-strefa" \in args THEN "strefa" ELSE m0
    IN IF "-orto" \in args THEN "orto" ELSE m1

\* A loader that ignores the mode.
LoadLogoAlways(exists, mode) == IF exists THEN "logo" ELSE None

\* Lines 166-168.
LoadLogo(exists, mode) ==
    IF exists /\ mode # "orto" THEN "logo" ELSE None

(***************************************************************************)
(* save_radiometric_tiff (lines 55-82).  fault is what the environment     *)
(* does to this call: "imwrite" (tiff.imwrite raises), "exif_nonzero"      *)
(* (exiftool exits non-zero), "exif_absent" (subprocess.run raises because *)
(* the executable is missing) or "none".  The function never raises: both  *)
(* calls sit inside the try of line 57.                                    *)
(* data.astype(np.float32) leaves the values as they are: the decoder of   *)
(* line 49 already yields float32.                                         *)
(***************************************************************************)
LogWarning == "ExifTool ostrzezenie"
LogCritical == "BLAD KRYTYCZNY"
LogError == "BLAD"

save_radiometric_tiff(source_jpg, data, output_path, fault) ==
    IF fault = "imwrite" THEN
        [writes |-> {},
         lines |-> <<<<LogCritical, output_path>>>>,
         exif |-> None]
    ELSE
        [writes |-> {<<output_path,
                       [kind |-> "tiff", data |-> data,
                        tags |-> IF fault = "none" THEN source_jpg ELSE None]>>},
         lines |-> CASE fault = "exif_absent" ->
                            <<<<LogCritical, output_path>>>>
                     [] fault = "exif_nonzero" ->
                            <<<<LogWarning, Basename(source_jpg)>>>>
                     [] OTHER -> <<>>,
         exif |-> IF fault = "none" THEN "ok" ELSE fault]

(***************************************************************************)
(* process_image (lines 84-139).  file is what the decoder and the EXIF    *)
(* reader find in the input; fault is where the environment makes this     *)
(* invocation fail: "render_early" (lines 103-105), "render_late" (lines   *)
(* 117-135), "savefig" (line 138), the exporter's faults, or "none".       *)
(* The result tells the caller whether an exception left the function,     *)
(* how many figures were opened and closed, what was written and logged.   *)
(***************************************************************************)
NoStats == [computed |-> FALSE]
NoZone == [applied |-> FALSE]
NoPoint == <<>>
NoPath == <<>>

NoAnalysis ==
    [stats |-> NoStats, zone |-> NoZone, max_p |-> NoPoint, min_p |-> NoPoint,
     date_str |-> <<>>, sensor |-> None, logo_drawn |-> FALSE]

\* A decision that skips the check of the smoothed field.
DrawContourUnchecked(nondegenerate, smoothed) == nondegenerate

\* Lines 111-114: the contour is drawn when the raw mask is not uniform and
\* the smoothed mask straddles 0.5.
DrawContour(nondegenerate, smoothed) ==
    nondegenerate /\ Straddles(smoothed)

\* Lines 108-115.
ZoneAnalysis(data, t_med2, dol, gora) ==
    LET t_low == ZoneLow200(t_med2, dol)
        t_high == ZoneHigh200(t_med2, gora)
        mask == ZoneMask(data, t_low, t_high)
        nondegenerate == np_min(mask) # np_max(mask)
        smoothed == IF nondegenerate THEN gaussian_filter(mask) ELSE <<>>
    IN [applied |-> TRUE, t_low |-> t_low, t_high |-> t_high, mask |-> mask,
        filtered |-> nondegenerate, smoothed |-> smoothed,
        contour |-> DrawContour(nondegenerate, smoothed)]

Statistics(data) ==
    [computed |-> TRUE, t_min |-> np_min(data), t_max |-> np_max(data),
     t_avg |-> np_mean(data), t_med2 |-> np_median2(data)]

process_image(filepath, logo_img, mode, file, fault, dol, gora) ==
    LET fname == Basename(filepath)
        temp_data == file.data
        base == [file |-> filepath, fname |-> fname, mode |-> mode,
                 fault |-> fault]
    IN
    IF ~file.ok THEN
        \* line 86 raises
        [raised |-> TRUE, opened |-> 0, closed |-> 0, writes |-> {},
         lines |-> <<>>,
         rec |-> base @@ NoAnalysis @@
                 [decoded |-> FALSE, raised |-> TRUE, output_path |-> NoPath,
                  saved |-> FALSE, exif |-> None]]
    ELSE IF mode = "orto" THEN
        LET output_path == Join(OUTPUT_DIR, Replace(fname, ExtJPG, ExtTif))
            r == save_radiometric_tiff(filepath, temp_data, output_path, fault)
        IN [raised |-> FALSE, opened |-> 0, closed |-> 0,
            writes |-> r.writes, lines |-> r.lines,
            rec |-> base @@ NoAnalysis @@
                    [decoded |-> TRUE, raised |-> FALSE,
                     output_path |-> output_path,
                     saved |-> r.writes # {}, exif |-> r.exif]]
    ELSE
        LET use_zones == (mode = "strefa")
            date_str == parse_dji_datetime(fname)
            sensor_model == get_sensor_info(file)
            stats == Statistics(temp_data)
            zone == IF use_zones
                    THEN ZoneAnalysis(temp_data, stats.t_med2, dol, gora)
                    ELSE NoZone
            k_max == np_argmax(temp_data)
            k_min == np_argmin(temp_data)
            max_p == np_unravel_index(k_max, Height(temp_data), Width(temp_data))
            min_p == np_unravel_index(k_min, Height(temp_data), Width(temp_data))
            output_path ==
                Join(OUTPUT_DIR,
                     Replace(fname, ExtJPG, <<"_">> \o ModeChars(mode) \o ExtJpg))
            early == [stats |-> stats, zone |-> NoZone, max_p |-> NoPoint,
                      min_p |-> NoPoint, date_str |-> date_str,
                      sensor |-> sensor_model, logo_drawn |-> FALSE]
            full == [stats |-> stats, zone |-> zone, max_p |-> max_p,
                     min_p |-> min_p, date_str |-> date_str,
                     sensor |-> sensor_model, logo_drawn |-> logo_img # None]
            chart == [kind |-> "chart", src |-> fname, mode |-> mode] @@ full
        IN
        IF fault = "render_early" THEN
            \* the figure of line 102 exists, line 139 is not reached
            [raised |-> TRUE, opened |-> 1, closed |-> 0, writes |-> {},
             lines |-> <<>>,
             rec |-> base @@ early @@
                     [decoded |-> TRUE, raised |-> TRUE, output_path |-> NoPath,
                      saved |-> FALSE, exif |-> None]]
        ELSE IF fault = "render_late" THEN
            [raised |-> TRUE, opened |-> 1, closed |-> 0, writes |-> {},
             lines |-> <<>>,
             rec |-> base @@ full @@
                     [decoded |-> TRUE, raised |-> TRUE, output_path |-> NoPath,
                      saved |-> FALSE, exif |-> None]]
        ELSE IF fault = "savefig" THEN
            [raised |-> TRUE, opened |-> 1, closed |-> 0, writes |-> {},
             lines |-> <<>>,
             rec |-> base @@ full @@
                     [decoded |-> TRUE, raised |-> TRUE,
                      output_path |-> output_path,
                      saved |-> FALSE, exif |-> None]]
        ELSE
            [raised |-> FALSE, opened |-> 1, closed |-> 1,
             writes |-> {<<output_path, chart>>}, lines |-> <<>>,
             rec |-> base @@ full @@
                     [decoded |-> TRUE, raised |-> FALSE,
                      output_path |-> output_path,
                      saved |-> TRUE, exif |-> None]]

(***************************************************************************)
(* __main__ (lines 160-175).                                               *)
(***************************************************************************)
Put(dir, writes) ==
    [q \in DOMAIN dir \cup {w[1] : w \in writes} |->
        IF \E w \in writes : w[1] = q
        THEN (CHOOSE w \in writes : w[1] = q)[2]
        ELSE dir[q]]

\* A handler that lets the failure end the loop.
AfterFileAbort(i, n, raised) == IF raised THEN n ELSE i + 1

\* Lines 171-175: the except clause swallows the failure, the for loop goes
\* on to the next file.
AfterFile(i, n, raised) == i + 1

\* Line 175.
Handler(f, raised) ==
    IF raised THEN <<<<LogError, Basename(f)>>>> ELSE <<>>

\* Lines 161-170.
Start ==
    /\ pc = "start"
    /\ current_mode' = SelectMode(argv)
    /\ files' = Sorted(Glob(listing))
    /\ logo_data' = LoadLogo(logo_exists, current_mode')
    /\ pc' = "loop"
    /\ UNCHANGED <<argv, listing, content, logo_exists, strefa_dol_procent,
                   strefa_gora_procent, idx, figs, outdir, log, trace,
                   fn_arg, fn_ret>>

\* One iteration of the loop of lines 171-175.
Iterate(fault) ==
    LET f == files[idx + 1]
        r == process_image(f, logo_data, current_mode, content[f], fault,
                           strefa_dol_procent, strefa_gora_procent)
    IN /\ figs' = figs + r.opened - r.closed
       /\ outdir' = Put(outdir, r.writes)
       /\ log' = log \o r.lines \o Handler(f, r.raised)
       /\ trace' = Append(trace, r.rec)
       /\ idx' = AfterFile(idx, Len(files), r.raised)
       /\ UNCHANGED <<argv, listing, content, logo_exists,
                      strefa_dol_procent, strefa_gora_procent, current_mode,
                      files, logo_data, pc, fn_arg, fn_ret>>

RaportFaults == {"none", "render_early", "render_late", "savefig"}
OrtoFaults == {"none", "imwrite", "exif_nonzero", "exif_absent"}

StepRaport ==
    /\ pc = "loop"
    /\ idx < Len(files)
    /\ current_mode # "orto"
    /\ \E fault \in RaportFaults : Iterate(fault)

StepOrto ==
    /\ pc = "loop"
    /\ idx < Len(files)
    /\ current_mode = "orto"
    /\ \E fault \in OrtoFaults : Iterate(fault)

\* The loop is exhausted and the script ends.
Finish ==
    /\ pc = "loop"
    /\ idx >= Len(files)
    /\ pc' = "done"
    /\ UNCHANGED <<argv, listing, content, logo_exists, strefa_dol_procent,
                   strefa_gora_procent, current_mode, files, logo_data, idx,
                   figs, outdir, log, trace, fn_arg, fn_ret>>

\* A direct call of parse_dji_datetime.
ParseCall ==
    /\ pc = "idle"
    /\ fn_ret = None
    /\ fn_ret' = parse_dji_datetime(fn_arg)
    /\ UNCHANGED <<fn_arg>>
    /\ UNCHANGED batchVars

(***************************************************************************)
(* Inputs.                                                                 *)
(***************************************************************************)
Flags == {"-strefa", "-orto"}

NameA == <<"A", "_", "T", ".", "J", "P", "G">>
NameLower == <<"a", "_", "T", ".", "J", "P", "G">>
NameInnerJPG == <<"A", ".", "J", "P", "G", "_", "T", ".", "J", "P", "G">>
NameInnerTif == <<"A", ".", "t", "i", "f", "_", "T", ".", "J", "P", "G">>
NameUnmatched == <<"B", "_", "T", ".", "j", "p", "g">>
NameDJI ==
    <<"D", "J", "I", "_", "2", "0", "2", "3", "0", "6", "1", "5", "1", "4",
      "3", "0", "2", "2", "_", "0", "0", "0", "1", "_", "T", ".", "J", "P", "G">>

NamePool ==
    {NameA, NameLower, NameInnerJPG, NameInnerTif, NameUnmatched, NameDJI}

Corrupt == [ok |-> FALSE, data |-> <<>>, model |-> None]

BatchContents ==
    {Corrupt,
     [ok |-> TRUE, data |-> <<<<21, 20>>, <<20, 35>>>>, model |-> "M3T"],
     [ok |-> TRUE, data |-> <<<<-5, -5, -5>>>>, model |-> None]}

\* Matrices of the shapes 1x1, 2x1, 1x3 and 2x2 over -MaxTemp..MaxTemp.
Temps == (-MaxTemp)..MaxTemp
Shapes == {<<1, 1>>, <<2, 1>>, <<1, 3>>, <<2, 2>>}
Matrices ==
    UNION {[1..sh[1] -> [1..sh[2] -> Temps]] : sh \in Shapes}

DolPercents == {0, 10, 150}
GoraPercents == {0, 10}

\* File names built around a run of 0..MaxRun digits.
DigitSeq == <<"0", "1", "2", "3", "4", "5", "6", "7", "8", "9">>
Run(n, off) == [k \in 1..n |-> DigitSeq[((k + off) % 10) + 1]]

ParsePrefixes ==
    {<<>>,
     <<"D", "J", "I", "_">>,
     <<"2", "0", "2", "3", "0", "6", "1", "5", "_", "1", "4", "3", "0", "2",
       "2", "_">>,
     <<"X", "1", "2", "3", "4", "5", "6", "7", "8", "9", "0", "1", "2", "3",
       "Y">>}
ParseSuffixes ==
    {<<>>,
     PatternTail,
     <<"_", "0", "0", "0", "1", "_", "T", ".", "J", "P", "G">>,
     <<"x", "2", "0", "2", "3", "0", "6", "1", "5", "1", "4", "3", "0", "2",
       "2", "9", "9">>}
ParseNames ==
    {NameDJI} \cup
    {p \o Run(n, off) \o sfx :
        p \in ParsePrefixes, n \in 0..MaxRun, off \in {0, 3},
        sfx \in ParseSuffixes}

(***************************************************************************)
(* Specifications.                                                         *)
(***************************************************************************)
InitRun ==
    /\ current_mode = None
    /\ files = <<>>
    /\ logo_data = None
    /\ pc = "start"
    /\ idx = 0
    /\ figs = 0
    /\ outdir = <<>>
    /\ log = <<>>
    /\ trace = <<>>
    /\ fn_arg = None
    /\ fn_ret = None

\* A batch: up to MaxFiles names in INPUT_DIR, any flags.
Init ==
    /\ argv \in SUBSET Flags
    /\ listing \in {S \in SUBSET NamePool : Cardinality(S) <= MaxFiles}
    /\ content \in [Glob(listing) -> BatchContents]
    /\ logo_exists \in BOOLEAN
    /\ strefa_dol_procent = 10
    /\ strefa_gora_procent = 10
    /\ InitRun

\* One decodable image, any matrix and any margins.
InitImage ==
    /\ argv \in {{}, {"-strefa"}, {"-orto"}}
    /\ listing = {NameA}
    /\ content \in [Glob(listing) -> {[ok |-> TRUE, data |-> m, model |-> None] : m \in Matrices}]
    /\ logo_exists = TRUE
    /\ strefa_dol_procent \in DolPercents
    /\ strefa_gora_procent \in GoraPercents
    /\ InitRun

InitParse ==
    /\ argv = {}
    /\ listing = {}
    /\ content = <<>>
    /\ logo_exists = FALSE
    /\ strefa_dol_procent = 0
    /\ strefa_gora_procent = 0
    /\ current_mode = None
    /\ files = <<>>
    /\ logo_data = None
    /\ pc = "idle"
    /\ idx = 0
    /\ figs = 0
    /\ outdir = <<>>
    /\ log = <<>>
    /\ trace = <<>>
    /\ fn_arg \in ParseNames
    /\ fn_ret = None

Next == Start \/ StepRaport \/ StepOrto \/ Finish

NextParse == ParseCall

Spec == Init /\ [][Next]_vars

SpecImage == InitImage /\ [][Next]_vars

SpecParse == InitParse /\ [][NextParse]_vars

(***************************************************************************)
(* Properties.                                                             *)
(***************************************************************************)
Invocations == 1..Len(trace)

\* The invocation failed to decode, to render or to write its artifact.
Failed(r) ==
    \/ ~r.decoded
    \/ r.fault \in {"render_early", "render_late", "savefig", "imwrite"}

\* The driver takes the matched files once each, in sorted order, whatever
\* fails, and a file that does not fail has its artifact.
Isolation ==
    /\ pc # "start" =>
        /\ {files[i] : i \in 1..Len(files)} = Glob(listing)
        /\ \A i, j \in 1..Len(files) : i < j => StrLess(files[i], files[j])
    /\ Len(trace) <= Len(files)
    /\ \A i \in Invocations : trace[i].file = files[i]
    /\ pc = "done" => Len(trace) = Len(files)
    /\ \A i \in Invocations :
        ~Failed(trace[i]) => trace[i].output_path \in DOMAIN outdir

C2_NoOpenFigureBetweenFiles ==
    pc \in {"loop", "done"} => figs = 0

\* C3: in raw mode a failed metadata copy (non-zero exit, or exiftool
\* missing) is reported as a warning and nothing else: the raster exists
\* with the matrix values, nothing is raised to the driver, and no error
\* line is logged for the file.
C3_MetadataFailureIsWarning ==
    \A i \in Invocations :
        LET r == trace[i] IN
        (r.mode = "orto" /\ r.decoded
            /\ r.fault \in {"exif_nonzero", "exif_absent"}) =>
            /\ ~r.raised
            /\ r.saved
            /\ (i = Len(trace) =>
                    /\ r.output_path \in DOMAIN outdir
                    /\ outdir[r.output_path].data = content[r.file].data)
            /\ \E k \in 1..Len(log) : log[k] = <<LogWarning, r.fname>>
            /\ \A k \in 1..Len(log) :
                log[k][1] \in {LogCritical, LogError} =>
                    log[k][2] \notin {r.fname, r.file, r.output_path}

\* The invocation went past line 105 in a visual mode.
Analysed(r) ==
    r.decoded /\ r.mode # "orto" /\ r.fault # "render_early"

CellsOf(m) == {m[r][c] : r \in 1..Len(m), c \in 1..Len(m[1])}

\* C4: a contour is drawn exactly when the mode is strefa, the raw mask is
\* neither all true nor all false, and the smoothed mask has a cell below
\* 0.5 and a cell above 0.5; the mask is smoothed only when the raw mask is
\* not uniform, and the smoothed field is the Gaussian filter of the mask.
C4_ContourIff ==
    \A i \in Invocations :
        LET r == trace[i] IN
        Analysed(r) =>
            /\ r.zone.applied <=> r.mode = "strefa"
            /\ r.zone.applied =>
                LET uniform == Cardinality(CellsOf(r.zone.mask)) = 1
                IN /\ r.zone.filtered <=> ~uniform
                   /\ r.zone.filtered =>
                        r.zone.smoothed = gaussian_filter(r.zone.mask)
                   /\ r.zone.contour <=>
                        /\ ~uniform
                        /\ \E lo, hi \in CellsOf(r.zone.smoothed) :
                            /\ 2 * lo < KernelSum * KernelSum
                            /\ KernelSum * KernelSum < 2 * hi

\* A zone-mode invocation that drew a contour.
C4_Witness ==
    \E i \in Invocations :
        /\ Analysed(trace[i])
        /\ trace[i].zone.applied
        /\ trace[i].zone.contour

\* C5: with margins d, u >= 0 the zone bounds satisfy lower <= median <=
\* upper, for any sign of the median, and lower = upper = median when
\* d = u = 0.  (Bounds are held times 200, the median times 2.)
C5_BoundsBracketMedian ==
    \A i \in Invocations :
        LET r == trace[i] IN
        (Analysed(r) /\ r.zone.applied) =>
            /\ r.zone.t_low <= 100 * r.stats.t_med2
            /\ 100 * r.stats.t_med2 <= r.zone.t_high
            /\ (strefa_dol_procent = 0 /\ strefa_gora_procent = 0) =>
                /\ r.zone.t_low = 100 * r.stats.t_med2
                /\ r.zone.t_high = 100 * r.stats.t_med2

\* C6: in zone mode a matrix whose cells all hold one value, of any sign,
\* has a fully true mask and no contour.
C6_UniformMatrixFullMask ==
    \A i \in Invocations :
        LET r == trace[i] IN
        (Analysed(r) /\ r.zone.applied
            /\ Cardinality(CellsOf(content[r.file].data)) = 1) =>
            /\ CellsOf(r.zone.mask) = {1}
            /\ ~r.zone.contour

FlagOf(mode) == IF mode = "strefa" THEN "-strefa" ELSE "-orto"

\* C7: one mode of the three is selected before any file is processed,
\* podstawa without a mode flag and otherwise a mode whose flag is present;
\* every file is processed in that mode; in orto mode no logo is loaded and
\* no file gets statistics, a zone analysis, a figure or a chart.
C7_OneModePerRun ==
    /\ pc = "start" => trace = <<>>
    /\ pc # "start" =>
        /\ current_mode \in Modes
        /\ argv \cap Flags = {} => current_mode = "podstawa"
        /\ current_mode # "podstawa" => FlagOf(current_mode) \in argv
        /\ \A i \in Invocations : trace[i].mode = current_mode
        /\ current_mode = "orto" =>
            /\ logo_data = None
            /\ figs = 0
            /\ \A i \in Invocations :
                /\ ~trace[i].stats.computed
                /\ ~trace[i].zone.applied
                /\ ~trace[i].logo_drawn
            /\ \A p \in DOMAIN outdir : outdir[p].kind = "tiff"

\* A finished orto run over two files, started with both flags and with a
\* logo file present.
C7_Witness ==
    /\ pc = "done"
    /\ current_mode = "orto"
    /\ argv = Flags
    /\ logo_exists
    /\ Len(trace) = 2

RowMajor(p, w) == p[1] * w + p[2]

\* C8: the located maximum (minimum) is the first cell, in row-major
\* order, that holds the largest (smallest) value of the matrix, and that
\* value is the statistics' t_max (t_min).
C8_FirstExtremum ==
    \A i \in Invocations :
        LET r == trace[i]
            d == content[r.file].data
            w == Len(d[1])
            cells == (0..(Len(d) - 1)) \X (0..(w - 1))
            at(p) == d[p[1] + 1][p[2] + 1]
        IN (Analysed(r) /\ r.max_p # NoPoint) =>
            /\ r.max_p \in cells
            /\ r.min_p \in cells
            /\ \A q \in cells : at(q) <= at(r.max_p) /\ at(q) >= at(r.min_p)
            /\ \A q \in cells :
                RowMajor(q, w) < RowMajor(r.max_p, w) => at(q) # at(r.max_p)
            /\ \A q \in cells :
                RowMajor(q, w) < RowMajor(r.min_p, w) => at(q) # at(r.min_p)
            /\ r.stats.t_max = at(r.max_p)
            /\ r.stats.t_min = at(r.min_p)

\* An analysed matrix in which two cells tie for the maximum and two other
\* cells tie for the minimum.
C8_Witness ==
    \E i \in Invocations :
        LET r == trace[i]
            d == content[r.file].data
            cells == (1..Len(d)) \X (1..Len(d[1]))
        IN /\ Analysed(r)
           /\ r.max_p # NoPoint
           /\ r.stats.t_min < r.stats.t_max
           /\ Cardinality({q \in cells : d[q[1]][q[2]] = r.stats.t_max}) = 2
           /\ Cardinality({q \in cells : d[q[1]][q[2]] = r.stats.t_min}) = 2

\* The name without its last extension.
RECURSIVE Stem(_)
Stem(name) ==
    IF name = <<>> THEN <<>>
    ELSE IF name[Len(name)] = "." THEN SubSeq(name, 1, Len(name) - 1)
    ELSE Stem(SubSeq(name, 1, Len(name) - 1))

\* C9: each input that is written gets the output name stem + "_" + mode +
\* ".jpg" in the visual modes and stem + ".tif" in orto mode, and two
\* inputs never share an output name.
C9_OutputNameFromStem ==
    /\ \A i \in Invocations :
        LET r == trace[i] IN
        r.saved =>
            Basename(r.output_path) =
                IF r.mode = "orto" THEN Stem(r.fname) \o ExtTif
                ELSE Stem(r.fname) \o <<"_">> \o ModeChars(r.mode) \o ExtJpg
    /\ \A i, j \in Invocations :
        (i # j /\ trace[i].saved /\ trace[j].saved) =>
            trace[i].output_path # trace[j].output_path

Windows(s) ==
    {i \in 1..Len(s) :
        /\ i + 13 <= Len(s)
        /\ \A k \in i..(i + 13) : s[k] \in Digits}

\* C10: parse_dji_datetime returns, for the leftmost 14 consecutive digits
\* YYYYMMDDhhmmss of the name, the text DD.MM.YYYY hh:mm:ss, and the
\* placeholder when the name has no 14 consecutive digits; the name
\* DJI_20230615143022_0001_T.JPG gives 15.06.2023 14:30:22.
C10_ParseDateTime ==
    fn_ret # None =>
        /\ Windows(fn_arg) = {} => fn_ret = Placeholder
        /\ Windows(fn_arg) # {} =>
            LET i == CHOOSE x \in Windows(fn_arg) :
                        \A y \in Windows(fn_arg) : x <= y
                s == fn_arg
            IN fn_ret = <<s[i + 6], s[i + 7], ".", s[i + 4], s[i + 5], ".",
                          s[i], s[i + 1], s[i + 2], s[i + 3], " ",
                          s[i + 8], s[i + 9], ":", s[i + 10], s[i + 11], ":",
                          s[i + 12], s[i + 13]>>
        /\ fn_arg = NameDJI =>
            fn_ret = <<"1", "5", ".", "0", "6", ".", "2", "0", "2", "3", " ",
                       "1", "4", ":", "3", "0", ":", "2", "2">>

\* A parsed name that holds more than one window of 14 digits.
C10_Witness ==
    /\ fn_ret # None
    /\ fn_ret # Placeholder
    /\ Cardinality(Windows(fn_arg)) >= 2

====
